---- MODULE Spec2Model ----
(***************************************************************************)
(* A model of the user module of EK-SMS: UserRepository (respository.py),  *)
(* UserService (service.py) and the input schemas (schemas.py).            *)
(*                                                                         *)
(* The variable users is the user table as the service's session sees it:  *)
(* the rows of the store together with the entities the session has       *)
(* loaded (an attribute assigned to a loaded entity is what every later    *)
(* query of that session reads, the session flushing before each query).   *)
(* Strings that the code transforms or tests (emails, phones) are          *)
(* sequences of character codes; None is a value of its own.               *)
(***************************************************************************)
EXTENDS Integers, Sequences, FiniteSets, TLC

VARIABLES users, nextId, clock, uniqueConstraint, last, listed, tasks

vars == <<users, nextId, clock, uniqueConstraint, last, listed, tasks>>

-----------------------------------------------------------------------------
(* Bounds of the model. *)

\* ids (and creation timestamps) the store hands out in the sequential runs
MaxCreates == 2
\* ids the store hands out in the runs that exercise list
MaxListCreates == 3
\* largest page number and page size passed to list
MaxPage == 3
MaxPageSize == 2
\* concurrently running create calls
NumTasks == 2

-----------------------------------------------------------------------------
(* Values. *)

None == [isNone |-> TRUE]
Some(v) == [isNone |-> FALSE, val |-> v]

\* Python truthiness of an optional string: None and "" are falsy.
Truthy(o) == (~o.isNone) /\ o.val # <<>>

\* str.lower() on ASCII text: 'A'..'Z' (65..90) map to 'a'..'z'.
LowerChar(c) == IF c \in 65..90 THEN c + 32 ELSE c
Lower(s) == [i \in 1..Len(s) |-> LowerChar(s[i])]

\* "A@x", "a@x", "b@x"
EmailInputs == {<<65, 64, 120>>, <<97, 64, 120>>, <<98, 64, 120>>}
\* "a@x", "b@x", "c@x", "d@x"
ListEmailInputs == {<<97, 64, 120>>, <<98, 64, 120>>, <<99, 64, 120>>, <<100, 64, 120>>}
\* phone: str | None with max_length=20 and no minimum: None, "", "1"
PhoneInputs == {None, Some(<<>>), Some(<<49>>)}
PasswordInputs == {"password1", "password2"}
FirstNames == {"Ann"}
LastNames == {"Lee"}
Roles == {"student"}

\* The password primitive: a one-way hash with a verify counterpart.
hash_password(p) == [digest |-> p]
verify_password(p, h) == h.digest = p

\* The User entity once stored: the constructor's arguments, and the fields the
\* entity and the store assign (id, created_at, is_active).
User(email, first_name, last_name, phone, role, password_hash, id, now) ==
    [id |-> id, email |-> email, first_name |-> first_name, last_name |-> last_name,
     phone |-> phone, role |-> role, is_active |-> TRUE,
     password_hash |-> password_hash, created_at |-> now]

\* Faulty variant of NewUser: the email is stored as given, not lowercased.
NewUserAsGiven(data, id, now) ==
    User(data.email, data.first_name, data.last_name, data.phone, data.role,
         hash_password(data.password), id, now)

\* user = User(email=data.email.lower(), ...)
NewUser(data, id, now) ==
    User(Lower(data.email), data.first_name, data.last_name, data.phone, data.role,
         hash_password(data.password), id, now)

-----------------------------------------------------------------------------
(* UserRepository. *)

get_by_id(us, user_id) == {u \in us : u.id = user_id}

get_by_email(us, email) == {u \in us : u.email = Lower(email)}

\* Faulty variant of exists_by_email: the argument is not lowercased.
exists_by_email_exact(us, email) == Cardinality({u \in us : u.email = email}) > 0

exists_by_email(us, email) == Cardinality({u \in us : u.email = Lower(email)}) > 0

\* User.phone == phone never holds of a NULL phone.
exists_by_phone(us, phone) == Cardinality({u \in us : u.phone = Some(phone)}) > 0

\* The unique constraints the store may enforce: on email, and on phone when present.
ViolatesUnique(us) ==
    \E u, v \in us :
        /\ u # v
        /\ \/ u.email = v.email
           \/ (~u.phone.isNone) /\ u.phone = v.phone

\* session.add(user); flush(); refresh(user)
Repository_create(us, user, uc) ==
    IF uc /\ ViolatesUnique(us \cup {user})
    THEN [result |-> "IntegrityError", why |-> "", users |-> us]
    ELSE [result |-> "ok", why |-> "", users |-> us \cup {user}]

\* flush(); refresh(user), the loaded entity old having become new
Repository_update(us, old, new, uc) ==
    IF uc /\ ViolatesUnique((us \ {old}) \cup {new})
    THEN [result |-> "IntegrityError", why |-> "", users |-> us]
    ELSE [result |-> "ok", why |-> "", users |-> (us \ {old}) \cup {new}]

\* session.delete(user); flush()
Repository_delete(us, user) == us \ {user}

RECURSIVE OrderByCreatedAtDesc(_)
OrderByCreatedAtDesc(S) ==
    IF S = {} THEN <<>>
    ELSE LET m == CHOOSE u \in S : \A v \in S : v.created_at <= u.created_at
         IN <<m>> \o OrderByCreatedAtDesc(S \ {m})

\* Faulty variant of the ordering and of list: oldest first.
RECURSIVE OrderByCreatedAtAsc(_)
OrderByCreatedAtAsc(S) ==
    IF S = {} THEN <<>>
    ELSE LET m == CHOOSE u \in S : \A v \in S : u.created_at <= v.created_at
         IN <<m>> \o OrderByCreatedAtAsc(S \ {m})

Repository_list_asc(us, skip, limit, is_active) ==
    LET rows == IF is_active.isNone THEN us
                ELSE {u \in us : u.is_active = is_active.val}
        ordered == OrderByCreatedAtAsc(rows)
        hi == IF skip + limit < Len(ordered) THEN skip + limit ELSE Len(ordered)
    IN [items |-> SubSeq(ordered, skip + 1, hi), total |-> Cardinality(rows)]

Repository_list(us, skip, limit, is_active) ==
    LET rows == IF is_active.isNone THEN us
                ELSE {u \in us : u.is_active = is_active.val}
        ordered == OrderByCreatedAtDesc(rows)
        hi == IF skip + limit < Len(ordered) THEN skip + limit ELSE Len(ordered)
    IN [items |-> SubSeq(ordered, skip + 1, hi), total |-> Cardinality(rows)]

-----------------------------------------------------------------------------
(* UserService: what one call returns or raises, and the table it leaves. *)

Service_list(us, page, page_size, is_active) ==
    Repository_list(us, (page - 1) * page_size, page_size, is_active)

Service_create(us, data, id, now, uc) ==
    IF exists_by_email(us, data.email)
    THEN [result |-> "AlreadyExists", why |-> "email", users |-> us]
    ELSE IF Truthy(data.phone) /\ exists_by_phone(us, data.phone.val)
    THEN [result |-> "AlreadyExists", why |-> "phone", users |-> us]
    ELSE Repository_create(us, NewUser(data, id, now), uc)

AssignIfPresent(user, data) ==
    LET u1 == IF data.first_name.isNone THEN user
              ELSE [user EXCEPT !.first_name = data.first_name.val]
        u2 == IF data.last_name.isNone THEN u1
              ELSE [u1 EXCEPT !.last_name = data.last_name.val]
        u3 == IF data.role.isNone THEN u2 ELSE [u2 EXCEPT !.role = data.role.val]
    IN IF data.is_active.isNone THEN u3
       ELSE [u3 EXCEPT !.is_active = data.is_active.val]

\* Faulty variant of update: the email is checked whenever the patch carries one.
Service_update_always_checks(us, user_id, data, uc) ==
    LET found == get_by_id(us, user_id) IN
    IF found = {}
    THEN [result |-> "NotFound", why |-> "", users |-> us, emailChecked |-> FALSE]
    ELSE
        LET user == CHOOSE u \in found : TRUE
            changeEmail == Truthy(data.email)
        IN
        IF changeEmail /\ exists_by_email(us, data.email.val)
        THEN [result |-> "AlreadyExists", why |-> "email", users |-> us,
              emailChecked |-> TRUE]
        ELSE
            LET u1 == IF changeEmail
                      THEN [user EXCEPT !.email = Lower(data.email.val)]
                      ELSE user
                us1 == (us \ {user}) \cup {u1}
                changePhone == Truthy(data.phone) /\ data.phone # u1.phone
            IN
            IF changePhone /\ exists_by_phone(us1, data.phone.val)
            THEN [result |-> "AlreadyExists", why |-> "phone", users |-> us1,
                  emailChecked |-> changeEmail]
            ELSE
                LET u2 == IF changePhone THEN [u1 EXCEPT !.phone = data.phone]
                          ELSE u1
                    out == Repository_update(us, user, AssignIfPresent(u2, data), uc)
                IN [result |-> out.result, why |-> "", users |-> out.users,
                    emailChecked |-> changeEmail]

Service_update(us, user_id, data, uc) ==
    LET found == get_by_id(us, user_id) IN
    IF found = {}
    THEN [result |-> "NotFound", why |-> "", users |-> us, emailChecked |-> FALSE]
    ELSE
        LET user == CHOOSE u \in found : TRUE
            changeEmail == Truthy(data.email) /\ Lower(data.email.val) # user.email
        IN
        IF changeEmail /\ exists_by_email(us, data.email.val)
        THEN [result |-> "AlreadyExists", why |-> "email", users |-> us,
              emailChecked |-> TRUE]
        ELSE
            \* user.email is assigned before the phone is checked
            LET u1 == IF changeEmail
                      THEN [user EXCEPT !.email = Lower(data.email.val)]
                      ELSE user
                us1 == (us \ {user}) \cup {u1}
                changePhone == Truthy(data.phone) /\ data.phone # u1.phone
            IN
            IF changePhone /\ exists_by_phone(us1, data.phone.val)
            THEN [result |-> "AlreadyExists", why |-> "phone", users |-> us1,
                  emailChecked |-> changeEmail]
            ELSE
                LET u2 == IF changePhone THEN [u1 EXCEPT !.phone = data.phone]
                          ELSE u1
                    out == Repository_update(us, user, AssignIfPresent(u2, data), uc)
                IN [result |-> out.result, why |-> "", users |-> out.users,
                    emailChecked |-> changeEmail]

\* Faulty variant of update_password: the hash is replaced before the current
\* password is verified.
Service_update_password_unverified(us, user_id, current_password, new_password, uc) ==
    LET found == get_by_id(us, user_id) IN
    IF found = {}
    THEN [result |-> "NotFound", users |-> us]
    ELSE
        LET user == CHOOSE u \in found : TRUE
            new == [user EXCEPT !.password_hash = hash_password(new_password)]
            out == Repository_update(us, user, new, uc)
        IN IF ~verify_password(current_password, user.password_hash)
           THEN [result |-> "InvalidPassword", users |-> out.users]
           ELSE out

\* Faulty variant of update_password: the new hash is never assigned.
Service_update_password_keeps_hash(us, user_id, current_password, new_password, uc) ==
    LET found == get_by_id(us, user_id) IN
    IF found = {}
    THEN [result |-> "NotFound", users |-> us]
    ELSE
        LET user == CHOOSE u \in found : TRUE IN
        IF ~verify_password(current_password, user.password_hash)
        THEN [result |-> "InvalidPassword", users |-> us]
        ELSE Repository_update(us, user, user, uc)

Service_update_password(us, user_id, current_password, new_password, uc) ==
    LET found == get_by_id(us, user_id) IN
    IF found = {}
    THEN [result |-> "NotFound", users |-> us]
    ELSE
        LET user == CHOOSE u \in found : TRUE IN
        IF ~verify_password(current_password, user.password_hash)
        THEN [result |-> "InvalidPassword", users |-> us]
        ELSE Repository_update(
                 us, user,
                 [user EXCEPT !.password_hash = hash_password(new_password)], uc)

Service_delete(us, user_id) ==
    LET found == get_by_id(us, user_id) IN
    IF found = {}
    THEN [result |-> "NotFound", users |-> us]
    ELSE [result |-> "ok", users |-> Repository_delete(us, CHOOSE u \in found : TRUE)]

\* Faulty variant of verify_credentials: is_active is not consulted.
Service_verify_credentials_ignores_active(us, email, password) ==
    LET found == get_by_email(us, email) IN
    IF found = {} THEN [result |-> "NotFound", returned |-> {}]
    ELSE IF Cardinality(found) > 1
    THEN [result |-> "MultipleResultsFound", returned |-> {}]
    ELSE
        LET user == CHOOSE u \in found : TRUE IN
        IF ~verify_password(password, user.password_hash)
        THEN [result |-> "InvalidPassword", returned |-> {}]
        ELSE [result |-> "ok", returned |-> {user}]

\* scalar_one_or_none raises when several rows match
Service_verify_credentials(us, email, password) ==
    LET found == get_by_email(us, email) IN
    IF found = {} THEN [result |-> "NotFound", returned |-> {}]
    ELSE IF Cardinality(found) > 1
    THEN [result |-> "MultipleResultsFound", returned |-> {}]
    ELSE
        LET user == CHOOSE u \in found : TRUE IN
        IF ~verify_password(password, user.password_hash)
        THEN [result |-> "InvalidPassword", returned |-> {}]
        ELSE IF ~user.is_active
        THEN [result |-> "UserServiceError", returned |-> {}]
        ELSE [result |-> "ok", returned |-> {user}]

-----------------------------------------------------------------------------------------------------------------------------------------------------
(* Inputs the schemas accept. *)

UserCreateInputs ==
    [email : EmailInputs, first_name : FirstNames, last_name : LastNames,
     phone : PhoneInputs, role : Roles, password : PasswordInputs]

NoPatch ==
    [email |-> None, first_name |-> None, last_name |-> None, phone |-> None,
     role |-> None, is_active |-> None]

\* Patches of the unique fields (the empty patch among them), and patches of one
\* other field.
UserUpdateInputs ==
    {[NoPatch EXCEPT !.email = e, !.phone = p] :
        e \in {None} \cup {Some(x) : x \in EmailInputs}, p \in PhoneInputs}
    \cup {[NoPatch EXCEPT !.is_active = Some(a)] : a \in BOOLEAN}
    \cup {[NoPatch EXCEPT !.first_name = Some(n)] : n \in FirstNames}
    \cup {[NoPatch EXCEPT !.last_name = Some(n)] : n \in LastNames}
    \cup {[NoPatch EXCEPT !.role = Some(r)] : r \in Roles}

ListCreateInputs ==
    [email : ListEmailInputs, first_name : FirstNames, last_name : LastNames,
     phone : {None}, role : Roles, password : {"password1"}]

ListUpdateInputs == {[NoPatch EXCEPT !.is_active = Some(a)] : a \in BOOLEAN}

ActiveFilters == {None, Some(TRUE), Some(FALSE)}

-----------------------------------------------------------------------------
(* The calls, one action each; last records the call made and how it ended, *)
(* listed what list returned when the call was list.                        *)

NoCall ==
    [op |-> "none", result |-> "none", why |-> "", emailGiven |-> FALSE,
     emailChecked |-> FALSE]

NoList == [items |-> <<>>, total |-> 0]

Init ==
    /\ users = {}
    /\ nextId = 1
    /\ clock = 1
    /\ uniqueConstraint \in BOOLEAN
    /\ last = NoCall
    /\ listed = NoList
    /\ tasks = <<>>

CreateCall(data, maxId) ==
    LET out == Service_create(users, data, nextId, clock, uniqueConstraint) IN
    /\ out.result = "ok" => nextId <= maxId
    /\ users' = out.users
    /\ nextId' = IF out.result = "ok" THEN nextId + 1 ELSE nextId
    /\ clock' = IF out.result = "ok" THEN clock + 1 ELSE clock
    /\ last' = [NoCall EXCEPT !.op = "create", !.result = out.result, !.why = out.why]
    /\ listed' = NoList
    /\ UNCHANGED <<uniqueConstraint, tasks>>

UpdateCall(user_id, data) ==
    LET out == Service_update(users, user_id, data, uniqueConstraint) IN
    /\ users' = out.users
    /\ last' = [NoCall EXCEPT !.op = "update", !.result = out.result, !.why = out.why,
                              !.emailGiven = Truthy(data.email),
                              !.emailChecked = out.emailChecked]
    /\ listed' = NoList
    /\ UNCHANGED <<nextId, clock, uniqueConstraint, tasks>>

DeleteCall(user_id) ==
    LET out == Service_delete(users, user_id) IN
    /\ users' = out.users
    /\ last' = [NoCall EXCEPT !.op = "delete", !.result = out.result]
    /\ listed' = NoList
    /\ UNCHANGED <<nextId, clock, uniqueConstraint, tasks>>

Create == \E data \in UserCreateInputs : CreateCall(data, MaxCreates)

Update == \E user_id \in 1..MaxCreates, data \in UserUpdateInputs : UpdateCall(user_id, data)

UpdatePassword ==
    \E user_id \in 1..MaxCreates, current_password \in PasswordInputs,
       new_password \in PasswordInputs :
        LET out == Service_update_password(users, user_id, current_password,
                                           new_password, uniqueConstraint) IN
        /\ users' = out.users
        /\ last' = [NoCall EXCEPT !.op = "update_password", !.result = out.result]
        /\ listed' = NoList
    /\ UNCHANGED <<nextId, clock, uniqueConstraint, tasks>>

Delete == \E user_id \in 1..MaxCreates : DeleteCall(user_id)

VerifyCredentials ==
    \E email \in EmailInputs, password \in PasswordInputs :
        LET out == Service_verify_credentials(users, email, password) IN
        /\ last' = [NoCall EXCEPT !.op = "verify_credentials", !.result = out.result]
        /\ listed' = NoList
        /\ UNCHANGED <<users, nextId, clock, uniqueConstraint, tasks>>

Next == Create \/ Update \/ UpdatePassword \/ Delete \/ VerifyCredentials

Spec == Init /\ [][Next]_vars

-----------------------------------------------------------------------------
(* The runs that exercise list: more users, only is_active changing. *)

ListCreate == \E data \in ListCreateInputs : CreateCall(data, MaxListCreates)

ListUpdate ==
    \E user_id \in 1..MaxListCreates, data \in ListUpdateInputs : UpdateCall(user_id, data)

ListDelete == \E user_id \in 1..MaxListCreates : DeleteCall(user_id)

List ==
    \E page \in 1..MaxPage, page_size \in 1..MaxPageSize, is_active \in ActiveFilters :
        /\ listed' = Service_list(users, page, page_size, is_active)
        /\ last' = [NoCall EXCEPT !.op = "list", !.result = "ok"]
        /\ UNCHANGED <<users, nextId, clock, uniqueConstraint, tasks>>

NextList == ListCreate \/ ListUpdate \/ ListDelete \/ List

SpecList == Init /\ [][NextList]_vars

-----------------------------------------------------------------------------
(* The runs that exercise update with an email no user has: creates of      *)
(* "a@x" and "b@x", patches that may carry "c@x".                           *)

PatchCreateInputs ==
    [email : {<<97, 64, 120>>, <<98, 64, 120>>}, first_name : FirstNames,
     last_name : LastNames, phone : {None, Some(<<49>>)}, role : Roles,
     password : {"password1"}]

PatchUpdateInputs ==
    {[NoPatch EXCEPT !.email = e, !.phone = p] :
        e \in {None, Some(<<65, 64, 120>>), Some(<<98, 64, 120>>), Some(<<99, 64, 120>>)},
        p \in {None, Some(<<49>>), Some(<<50>>)}}

PatchCreate == \E data \in PatchCreateInputs : CreateCall(data, MaxCreates)

PatchUpdate ==
    \E user_id \in 1..MaxCreates, data \in PatchUpdateInputs : UpdateCall(user_id, data)

PatchDelete == \E user_id \in 1..MaxCreates : DeleteCall(user_id)

NextPatch == PatchCreate \/ PatchUpdate \/ PatchDelete

SpecPatch == Init /\ [][NextPatch]_vars

-----------------------------------------------------------------------------
(* Concurrent create calls. Each call is a coroutine that can be suspended  *)
(* at every storage call it awaits: exists_by_email, exists_by_phone, and   *)
(* the flush of repository.create. The calls read and write one store; a    *)
(* store that enforces the unique constraints rejects the flush.            *)

ConcCreateInputs ==
    [email : EmailInputs, first_name : FirstNames, last_name : LastNames,
     phone : {None, Some(<<49>>)}, role : Roles, password : {"password1"}]

IdleTask ==
    [pc |-> "idle", data |-> None, result |-> "none", emailFreeAt |-> 0, userId |-> 0]

InitConc ==
    /\ users = {}
    /\ nextId = 1
    /\ clock = 1
    /\ uniqueConstraint \in BOOLEAN
    /\ last = NoCall
    /\ listed = NoList
    /\ tasks = [t \in 1..NumTasks |-> IdleTask]

\* create is called: the coroutine runs up to its first await
Begin(t) ==
    /\ tasks[t].pc = "idle"
    /\ \E data \in ConcCreateInputs :
           tasks' = [tasks EXCEPT ![t].pc = "exists_by_email", ![t].data = Some(data)]
    /\ UNCHANGED <<users, nextId, clock, uniqueConstraint, last, listed>>

\* the store answers exists_by_email; the coroutine runs up to its next await
CheckEmail(t) ==
    /\ tasks[t].pc = "exists_by_email"
    /\ LET data == tasks[t].data.val IN
       tasks' =
           IF exists_by_email(users, data.email)
           THEN [tasks EXCEPT ![t].pc = "done", ![t].result = "AlreadyExists"]
           ELSE [tasks EXCEPT ![t].pc = IF Truthy(data.phone) THEN "exists_by_phone"
                                        ELSE "flush",
                              ![t].emailFreeAt = clock]
    /\ UNCHANGED <<users, nextId, clock, uniqueConstraint, last, listed>>

\* the store answers exists_by_phone
CheckPhone(t) ==
    /\ tasks[t].pc = "exists_by_phone"
    /\ LET data == tasks[t].data.val IN
       tasks' =
           IF exists_by_phone(users, data.phone.val)
           THEN [tasks EXCEPT ![t].pc = "done", ![t].result = "AlreadyExists"]
           ELSE [tasks EXCEPT ![t].pc = "flush"]
    /\ UNCHANGED <<users, nextId, clock, uniqueConstraint, last, listed>>

\* repository.create: the store inserts the row, or rejects it
Insert(t) ==
    /\ tasks[t].pc = "flush"
    /\ LET out == Repository_create(users, NewUser(tasks[t].data.val, nextId, clock),
                                    uniqueConstraint) IN
       /\ users' = out.users
       /\ nextId' = IF out.result = "ok" THEN nextId + 1 ELSE nextId
       /\ clock' = IF out.result = "ok" THEN clock + 1 ELSE clock
       /\ tasks' = [tasks EXCEPT ![t].pc = "done", ![t].result = out.result,
                                 ![t].userId = IF out.result = "ok" THEN nextId ELSE 0]
    /\ UNCHANGED <<uniqueConstraint, last, listed>>

NextConc == \E t \in 1..NumTasks : Begin(t) \/ CheckEmail(t) \/ CheckPhone(t) \/ Insert(t)

SpecConc == InitConc /\ [][NextConc]_vars

-----------------------------------------------------------------------------
(* The properties checked. *)

SameEmail(e1, e2) == Lower(e1) = Lower(e2)

\* C1: after any sequence of sequential create, update, update_password and delete
\* calls from an empty store, every stored email is in lowercase form and no two
\* distinct stored users have the same email.
C1_EmailsLowercaseAndUnique ==
    \A u \in users :
        /\ u.email = Lower(u.email)
        /\ \A v \in users : u.email = v.email => u.id = v.id

\* two users are stored, the second one just created
C1_Witness ==
    /\ Cardinality(users) = 2
    /\ last.op = "create" /\ last.result = "ok"

\* C2: after any sequence of sequential create, update and delete calls, with any
\* phone the schemas accept, no two distinct stored users whose phone is not None
\* have the same phone.
C2_PresentPhonesUnique ==
    \A u, v \in users : ((~u.phone.isNone) /\ u.phone = v.phone) => u.id = v.id

\* C3: verify_credentials returns the user only if a user has the email (compared
\* case-insensitively), the password verifies and the user is active; otherwise it
\* fails with NotFound when no user has the email, else InvalidPassword when the
\* password does not verify, else the generic service error. A deactivated user
\* with the correct password gets the generic service error and is never returned.
C3_VerifyCredentialsOrder ==
    \A email \in EmailInputs, password \in PasswordInputs :
        LET out == Service_verify_credentials(users, email, password)
            having == {u \in users : SameEmail(u.email, email)}
            verifying == {u \in having : verify_password(password, u.password_hash)}
        IN /\ out.result = "ok" =>
                  /\ out.returned = {u \in verifying : u.is_active}
                  /\ Cardinality(out.returned) = 1
           /\ out.result # "ok" => out.returned = {}
           /\ having = {} => out.result = "NotFound"
           /\ (having # {} /\ verifying = {}) => out.result = "InvalidPassword"
           /\ (\E u \in verifying : ~u.is_active) => out.result = "UserServiceError"
           /\ (\E u \in verifying : u.is_active) => out.result = "ok"

\* a deactivated user has just presented the correct password
C3_Witness ==
    /\ last.op = "verify_credentials" /\ last.result = "UserServiceError"
    /\ \E u \in users : ~u.is_active

\* C4: a create whose email equals, case-insensitively, the email of a stored user
\* fails with AlreadyExists and leaves the stored users and their fields as they
\* were.
C4_CreateDuplicateEmailRejected ==
    \A data \in UserCreateInputs :
        (\E u \in users : SameEmail(u.email, data.email)) =>
            LET out == Service_create(users, data, nextId, clock, uniqueConstraint)
            IN out.result = "AlreadyExists" /\ out.users = users

\* a create has just been refused for its email
C4_Witness ==
    /\ last.op = "create" /\ last.result = "AlreadyExists" /\ last.why = "email"
    /\ users # {}

\* C5 as stated: for every existing user and every (current, new) where current
\* verifies, after update_password succeeds verify_credentials with the new
\* password returns the user and verify_credentials with the old password fails.
C5_NewPasswordInOldPasswordOut ==
    \A u \in users, current \in PasswordInputs, new \in PasswordInputs :
        verify_password(current, u.password_hash) =>
            LET out == Service_update_password(users, u.id, current, new,
                                               uniqueConstraint)
                withNew == Service_verify_credentials(out.users, u.email, new)
                withOld == Service_verify_credentials(out.users, u.email, current)
            IN out.result = "ok" =>
                   /\ withNew.result = "ok"
                   /\ \E w \in withNew.returned : w.id = u.id
                   /\ withOld.result # "ok"

\* C5 as amended: the new password is accepted when the user is active (an inactive
\* user gets the generic service error), and the old password is refused when the
\* new password differs from it.
C5_NewPasswordInOldPasswordOutAmended ==
    \A u \in users, current \in PasswordInputs, new \in PasswordInputs :
        verify_password(current, u.password_hash) =>
            LET out == Service_update_password(users, u.id, current, new,
                                               uniqueConstraint)
                withNew == Service_verify_credentials(out.users, u.email, new)
                withOld == Service_verify_credentials(out.users, u.email, current)
            IN out.result = "ok" =>
                   /\ u.is_active =>
                          /\ withNew.result = "ok"
                          /\ \E w \in withNew.returned : w.id = u.id
                   /\ ~u.is_active => withNew.result = "UserServiceError"
                   /\ new # current => withOld.result = "InvalidPassword"
                   /\ new = current => withOld = withNew

\* update_password has just succeeded for an active user, whose hash is now that
\* of "password2"
C5_Witness ==
    /\ last.op = "update_password" /\ last.result = "ok"
    /\ \E u \in users :
           /\ u.is_active
           /\ u.password_hash = hash_password("password2")

\* C6: update_password with a current password that does not verify fails with
\* InvalidPassword and leaves every stored field of every user unchanged, so
\* verify_credentials accepts the same passwords before and after.
C6_WrongCurrentPasswordChangesNothing ==
    \A u \in users, current \in PasswordInputs, new \in PasswordInputs :
        ~verify_password(current, u.password_hash) =>
            LET out == Service_update_password(users, u.id, current, new,
                                               uniqueConstraint)
            IN /\ out.result = "InvalidPassword"
               /\ out.users = users
               /\ \A email \in EmailInputs, password \in PasswordInputs :
                      Service_verify_credentials(out.users, email, password)
                          = Service_verify_credentials(users, email, password)

\* an update_password has just been refused
C6_Witness ==
    /\ last.op = "update_password" /\ last.result = "InvalidPassword"
    /\ users # {}

\* another user already has the patch's phone, which is not the target's
PhoneTaken(u, data) ==
    /\ Truthy(data.phone)
    /\ data.phone # u.phone
    /\ \E v \in users : v.phone = data.phone

\* C7 as stated: an update whose patch email is, case-insensitively, the email of a
\* different stored user fails with AlreadyExists; an update whose patch email is,
\* case-insensitively, the target's own email succeeds and checks no email.
C7_UpdateEmail ==
    \A u \in users, data \in UserUpdateInputs :
        Truthy(data.email) =>
            LET out == Service_update(users, u.id, data, uniqueConstraint) IN
            /\ (\E v \in users : v.id # u.id /\ SameEmail(v.email, data.email.val))
                   => out.result = "AlreadyExists"
            /\ SameEmail(u.email, data.email.val)
                   => (out.result = "ok" /\ ~out.emailChecked)

\* C7 as amended: with the target's own email the update checks no email and
\* succeeds unless the patch carries a phone, not the target's, that another user
\* has; then it fails with AlreadyExists for the phone.
C7_UpdateEmailAmended ==
    \A u \in users, data \in UserUpdateInputs :
        Truthy(data.email) =>
            LET out == Service_update(users, u.id, data, uniqueConstraint) IN
            /\ (\E v \in users : v.id # u.id /\ SameEmail(v.email, data.email.val))
                   => (out.result = "AlreadyExists" /\ out.why = "email")
            /\ SameEmail(u.email, data.email.val) =>
                   /\ ~out.emailChecked
                   /\ ~PhoneTaken(u, data) => out.result = "ok"
                   /\ PhoneTaken(u, data) =>
                          (out.result = "AlreadyExists" /\ out.why = "phone")

\* an update carrying an email has just succeeded without an email check
C7_Witness ==
    /\ last.op = "update" /\ last.result = "ok"
    /\ last.emailGiven /\ ~last.emailChecked
    /\ Cardinality(users) = 2

\* the users a filter keeps, and a user's position among them, newest first
Matching(is_active) ==
    IF is_active.isNone THEN users ELSE {u \in users : u.is_active = is_active.val}
Position(u, S) == Cardinality({v \in S : v.created_at > u.created_at}) + 1

\* C8: for every page >= 1, page_size >= 1 and filter, list returns exactly the users
\* at positions (page-1)*page_size+1 .. page*page_size of the matching users ordered
\* by creation time descending, and a total equal to the number of matching users,
\* whatever the page and page size.
C8_ListPage ==
    \A page \in 1..MaxPage, page_size \in 1..MaxPageSize, is_active \in ActiveFilters :
        LET out == Service_list(users, page, page_size, is_active)
            S == Matching(is_active)
            first == (page - 1) * page_size + 1
            onPage == {u \in S : Position(u, S) \in first..(page * page_size)}
        IN /\ out.total = Cardinality(S)
           /\ Len(out.items) = Cardinality(onPage)
           /\ \A k \in 1..Len(out.items) :
                  /\ out.items[k] \in S
                  /\ Position(out.items[k], S) = first + k - 1

\* list has just returned a page that is not the first, of a filtered set of two
\* among three users
C8_Witness ==
    /\ last.op = "list"
    /\ Len(listed.items) >= 1
    /\ listed.total = 2
    /\ Cardinality(users) = 3
    /\ \E u \in users :
           /\ u.is_active = listed.items[1].is_active
           /\ u.created_at > listed.items[1].created_at

\* C9: concurrent creates of one email can both pass exists_by_email before either
\* inserts; with no unique constraint in the store two stored users then share an
\* email, and with the constraint enforced no two stored users ever do. Two stored
\* users share an email only when the call that inserted the later one had its
\* exists_by_email answered before the earlier one was inserted.
C9_ConstraintPreventsDuplicates ==
    /\ uniqueConstraint =>
           \A u, v \in users : SameEmail(u.email, v.email) => u.id = v.id
    /\ \A u, v \in users :
           (u.created_at < v.created_at /\ SameEmail(u.email, v.email)) =>
               \E t \in 1..NumTasks :
                   /\ tasks[t].userId = v.id
                   /\ tasks[t].emailFreeAt <= u.created_at

\* both calls passed the email check before either inserted, and both inserted
C9_Witness ==
    /\ ~uniqueConstraint
    /\ \E u, v \in users : u.id # v.id /\ u.email = v.email
    /\ \E s, t \in 1..NumTasks :
           /\ s # t
           /\ tasks[s].result = "ok" /\ tasks[t].result = "ok"
           /\ tasks[s].emailFreeAt = 1 /\ tasks[t].emailFreeAt = 1

\* C10: whenever update fails (NotFound or AlreadyExists), the target user's fields
\* are unchanged; a patch with a new unused email and a phone another user has
\* fails with AlreadyExists and leaves the user's email the old one. An update
\* touches no user but its target, so the table is then as it was.
C10_FailedUpdateChangesNothing ==
    [][(last'.op = "update" /\ last'.result \in {"NotFound", "AlreadyExists"})
           => users' = users]_vars

====
